---- MODULE Spec2Model ----
(***************************************************************************)
(* gpui-markup: the `ui!` macro.  One expansion is a parse of the macro's  *)
(* token stream into a Markup AST (src/src/parser.rs) followed by the      *)
(* generation of a token stream from that AST (src/src/codegen.rs).        *)
(*                                                                         *)
(* A token tree is a record [k, s, g]: k is the kind (ident, punct, lit,   *)
(* group), s the identifier / punctuation / literal text or the group's    *)
(* delimiter, g the token trees inside a group.  The punctuation `..` and  *)
(* `::` (two Joint puncts for proc_macro2) are one token each; every other *)
(* punctuation of the model is a single character.                         *)
(***************************************************************************)
EXTENDS Integers, Sequences, FiniteSets, TLC

VARIABLES input, phase, ast, err, output,
          mc_input, mc_rest, mc_depth, mc_tokens, mc_pc

vars == <<input, phase, ast, err, output,
          mc_input, mc_rest, mc_depth, mc_tokens, mc_pc>>

pvars == <<input, phase, ast, err, output>>
mcvars == <<mc_input, mc_rest, mc_depth, mc_tokens, mc_pc>>

(***************************************************************************)
(* Token trees                                                             *)
(***************************************************************************)
Id(s) == [k |-> "ident", s |-> s, g |-> <<>>]
P(s) == [k |-> "punct", s |-> s, g |-> <<>>]
Lit(s) == [k |-> "lit", s |-> s, g |-> <<>>]
Grp(d, ts) == [k |-> "group", s |-> d, g |-> ts]

IsIdent(t) == t.k = "ident"
IsPunct(t, c) == t.k = "punct" /\ t.s = c
IsGroup(t, d) == t.k = "group" /\ t.s = d

Take(ts, n) == SubSeq(ts, 1, n)
Drop(ts, n) == SubSeq(ts, n + 1, Len(ts))

\* input.peek(Ident::peek_any), input.peek(Token![c]), input.peek(Brace) ...
PeekIdent(ts) == Len(ts) >= 1 /\ IsIdent(ts[1])
PeekPunct(ts, c) == Len(ts) >= 1 /\ IsPunct(ts[1], c)
PeekGroup(ts, d) == Len(ts) >= 1 /\ IsGroup(ts[1], d)

\* Native GPUI element names
NATIVE_ELEMENTS == {"div", "svg", "anchored"}

\* char::is_uppercase on the first character of a name, over the identifiers
\* of the model
UpperInitial == {"Header", "Button", "Container", "Div", "Primary"}
is_uppercase(name) == name \in UpperInitial

(***************************************************************************)
(* syn's expression parser, as far as the token alphabet of the model      *)
(* goes: `input.parse::<Expr>()`.  ExprEnd(ts, i) is the number of tokens  *)
(* of ts the expression starting after the first i tokens ends at, or -1   *)
(* when no expression can be parsed there.                                 *)
(*   atom    : literal | ( list ) | [ list ] | { expr? } | path            *)
(*           | path ! group | path { fields } | .. expr?                   *)
(*   postfix : atom ( . ident ( list )? | ( list ) | [ expr ] )*           *)
(*   expr    : postfix ( + expr | .. expr? )?                              *)
(***************************************************************************)
RECURSIVE PathEnd(_, _), AtomEnd(_, _), PostfixEnd(_, _), ExprEnd(_, _)
RECURSIVE ExprListOk(_), FieldsOk(_)

PathEnd(ts, i) ==
    IF Len(ts) >= i + 2 /\ IsPunct(ts[i + 1], "::") /\ IsIdent(ts[i + 2])
    THEN PathEnd(ts, i + 2)
    ELSE i

RangeEnd(ts, i) ==
    IF Len(ts) = i \/ IsPunct(ts[i + 1], ",") THEN i ELSE ExprEnd(ts, i)

\* after the path of p tokens: a macro call, a struct literal or the path
PathTail(ts, p) ==
    IF Len(ts) >= p + 2 /\ IsPunct(ts[p + 1], "!") /\ ts[p + 2].k = "group"
    THEN p + 2
    ELSE IF Len(ts) >= p + 1 /\ IsGroup(ts[p + 1], "brace")
    THEN (IF FieldsOk(ts[p + 1].g) THEN p + 1 ELSE -1)
    ELSE p

AtomEnd(ts, i) ==
    IF Len(ts) <= i THEN -1
    ELSE CASE ts[i + 1].k = "lit" -> i + 1
           [] IsGroup(ts[i + 1], "paren") \/ IsGroup(ts[i + 1], "bracket") ->
                IF ExprListOk(ts[i + 1].g) THEN i + 1 ELSE -1
           [] IsGroup(ts[i + 1], "brace") ->
                IF Len(ts[i + 1].g) = 0 \/ ExprEnd(ts[i + 1].g, 0) = Len(ts[i + 1].g)
                THEN i + 1 ELSE -1
           [] IsIdent(ts[i + 1]) -> PathTail(ts, PathEnd(ts, i + 1))
           [] IsPunct(ts[i + 1], "..") -> RangeEnd(ts, i + 1)
           [] OTHER -> -1

PostfixEnd(ts, i) ==
    IF i = -1 THEN -1
    ELSE IF Len(ts) <= i THEN i
    ELSE CASE IsPunct(ts[i + 1], ".") ->
                IF Len(ts) >= i + 2 /\ IsIdent(ts[i + 2])
                THEN IF Len(ts) >= i + 3 /\ IsGroup(ts[i + 3], "paren")
                     THEN (IF ExprListOk(ts[i + 3].g) THEN PostfixEnd(ts, i + 3) ELSE -1)
                     ELSE PostfixEnd(ts, i + 2)
                ELSE -1
           [] IsGroup(ts[i + 1], "paren") ->
                IF ExprListOk(ts[i + 1].g) THEN PostfixEnd(ts, i + 1) ELSE -1
           [] IsGroup(ts[i + 1], "bracket") ->
                IF Len(ts[i + 1].g) > 0 /\ ExprEnd(ts[i + 1].g, 0) = Len(ts[i + 1].g)
                THEN PostfixEnd(ts, i + 1) ELSE -1
           [] OTHER -> i

\* after the operand ending at u: a binary `+`, a range `..`, or the end
ExprTail(ts, u) ==
    IF u = -1 THEN -1
    ELSE IF Len(ts) > u /\ IsPunct(ts[u + 1], "+") THEN ExprEnd(ts, u + 1)
    ELSE IF Len(ts) > u /\ IsPunct(ts[u + 1], "..") THEN RangeEnd(ts, u + 1)
    ELSE u

ExprEnd(ts, i) == ExprTail(ts, PostfixEnd(ts, AtomEnd(ts, i)))

\* after the list item ending at e: the end, or a comma and the next items
ListTail(c, e) ==
    IF e = -1 THEN FALSE
    ELSE IF e = Len(c) THEN TRUE
    ELSE IF IsPunct(c[e + 1], ",") THEN ExprListOk(Drop(c, e + 1))
    ELSE FALSE

\* comma-separated expressions, one trailing comma allowed
ExprListOk(c) == IF Len(c) = 0 THEN TRUE ELSE ListTail(c, ExprEnd(c, 0))

FieldsTail(c, e) ==
    IF e = -1 THEN FALSE
    ELSE IF e = Len(c) THEN TRUE
    ELSE IF IsPunct(c[e + 1], ",") THEN FieldsOk(Drop(c, e + 1))
    ELSE FALSE

\* the fields of a struct literal: `name` or `name: expr`, comma-separated
FieldsOk(c) ==
    IF Len(c) = 0 THEN TRUE
    ELSE IF ~IsIdent(c[1]) THEN FALSE
    ELSE FieldsTail(c, IF Len(c) >= 2 /\ IsPunct(c[2], ":") THEN ExprEnd(c, 2) ELSE 1)

(***************************************************************************)
(* Parse results.  ok: the step returned Ok; err: the message of the       *)
(* error that aborted it; val: the parsed value; rest: the tokens left in  *)
(* the stream the step was given; unexp: some delimited region parsed so   *)
(* far was left with unconsumed tokens (syn reports these as "unexpected   *)
(* token" once the whole parse has returned Ok).                           *)
(***************************************************************************)
Ok(v, r, u) == [ok |-> TRUE, err |-> "", val |-> v, rest |-> r, unexp |-> u]
Fail(m) == [ok |-> FALSE, err |-> m, val |-> <<>>, rest |-> <<>>, unexp |-> FALSE]

ExprResult(ts, e) ==
    IF e = -1 THEN Fail("expected an expression")
    ELSE Ok(Take(ts, e), Drop(ts, e), FALSE)

ParseExpr(ts) == ExprResult(ts, ExprEnd(ts, 0))

(***************************************************************************)
(* The AST (as parser.rs builds it).  An element is a record               *)
(* [kind, name, expr, attributes, children]; a Deferred element's boxed    *)
(* `child` is the one entry of its children field.  A child is a record    *)
(* [kind, element, expr]: expr holds the tokens of an Expression or Spread *)
(* child and the raw tokens of a MethodChain child.                        *)
(***************************************************************************)
NoElement ==
    [kind |-> "None", name |-> "", expr |-> <<>>, attributes |-> <<>>, children |-> <<>>]

NativeElement(name, attributes, children) ==
    [kind |-> "Native", name |-> name, expr |-> <<>>,
     attributes |-> attributes, children |-> children]

ComponentElement(name, attributes, children) ==
    [kind |-> "Component", name |-> name, expr |-> <<>>,
     attributes |-> attributes, children |-> children]

DeferredElement(name, child) ==
    [kind |-> "Deferred", name |-> name, expr |-> <<>>,
     attributes |-> <<>>, children |-> <<child>>]

ExprElement(expr, attributes, children) ==
    [kind |-> "Expression", name |-> "", expr |-> expr,
     attributes |-> attributes, children |-> children]

ChildElement(element) == [kind |-> "Element", element |-> element, expr |-> <<>>]
ChildExpression(expr) == [kind |-> "Expression", element |-> NoElement, expr |-> expr]
ChildSpread(expr) == [kind |-> "Spread", element |-> NoElement, expr |-> expr]
ChildMethodChain(tokens) == [kind |-> "MethodChain", element |-> NoElement, expr |-> tokens]

AttrFlag(key) == [kind |-> "Flag", key |-> key, value |-> <<>>]
AttrKeyValue(key, value) == [kind |-> "KeyValue", key |-> key, value |-> value]

(***************************************************************************)
(* parse_method_chain: one iteration of its loop on the loop state         *)
(* [rest, angle_depth, tokens, done], and the loop run to its end.         *)
(***************************************************************************)
ChainStart(ts) == [rest |-> ts, angle_depth |-> 0, tokens |-> <<>>, done |-> FALSE]

\* the angle-bracket depth after the token tt
track_depth(tt, angle_depth) ==
    IF IsPunct(tt, "<") THEN angle_depth + 1
    ELSE IF IsPunct(tt, ">") THEN (IF angle_depth - 1 > 0 THEN angle_depth - 1 ELSE 0)
    ELSE angle_depth

\* ChainIter stopping at every comma, whatever the angle-bracket depth
ChainIter_any_comma(st) ==
    IF Len(st.rest) = 0 THEN [st EXCEPT !.done = TRUE]
    ELSE IF PeekPunct(st.rest, ",") THEN [st EXCEPT !.done = TRUE]
    ELSE [rest |-> Tail(st.rest),
          angle_depth |-> track_depth(Head(st.rest), st.angle_depth),
          tokens |-> Append(st.tokens, Head(st.rest)),
          done |-> FALSE]

ChainIter(st) ==
    IF Len(st.rest) = 0 THEN [st EXCEPT !.done = TRUE]
    ELSE IF PeekPunct(st.rest, ",") /\ st.angle_depth = 0 THEN [st EXCEPT !.done = TRUE]
    ELSE [rest |-> Tail(st.rest),
          angle_depth |-> track_depth(Head(st.rest), st.angle_depth),
          tokens |-> Append(st.tokens, Head(st.rest)),
          done |-> FALSE]

RECURSIVE ChainRun(_)
ChainRun(st) == IF st.done THEN st ELSE ChainRun(ChainIter(st))

ChainResult(st) == Ok(st.tokens, st.rest, FALSE)

parse_method_chain(ts) == ChainResult(ChainRun(ChainStart(ts)))

(***************************************************************************)
(* The parser.  Where the code binds the result of a step with `?` and     *)
(* goes on, the model hands the result to the operator of what follows.    *)
(***************************************************************************)
RECURSIVE parse_element(_), parse_child(_), ChildrenLoop(_, _, _)
RECURSIVE parse_deferred_element(_, _)

\* parse_attribute after `key :` and the value expression
attribute_value(key, e) ==
    IF ~e.ok THEN e ELSE Ok(AttrKeyValue(key, e.val), e.rest, FALSE)

parse_attribute(ts) ==
    IF ~PeekIdent(ts) THEN Fail("expected identifier")
    ELSE IF ~PeekPunct(Tail(ts), ":") THEN Ok(AttrFlag(ts[1].s), Tail(ts), FALSE)
    ELSE attribute_value(ts[1].s, ParseExpr(Drop(ts, 2)))

\* the `while !content.is_empty()` loop of parse_optional_attributes, and
\* its body after parse_attribute
RECURSIVE AttributesLoop(_, _)
attributes_push(a, attributes) ==
    IF ~a.ok THEN a
    ELSE IF PeekPunct(a.rest, ",")
    THEN AttributesLoop(Tail(a.rest), Append(attributes, a.val))
    ELSE Ok(Append(attributes, a.val), a.rest, FALSE)

AttributesLoop(content, attributes) ==
    IF Len(content) = 0 THEN Ok(attributes, content, FALSE)
    ELSE attributes_push(parse_attribute(content), attributes)

\* the end of bracketed!(content in input): the attributes, the input after
\* the group, and whether the group was left with tokens
bracketed_end(r, rest) ==
    IF ~r.ok THEN r ELSE Ok(r.val, rest, Len(r.rest) > 0)

parse_optional_attributes(ts) ==
    IF ~PeekGroup(ts, "bracket") THEN Ok(<<>>, ts, FALSE)
    ELSE bracketed_end(AttributesLoop(ts[1].g, <<>>), Tail(ts))

\* the `while !input.is_empty()` loop of parse_children, and its body after
\* parse_child
\* children_push leaving out a child that failed and going on with the rest
children_push_recover(c, children, unexp) ==
    IF ~c.ok THEN Ok(children, <<>>, unexp)
    ELSE IF PeekPunct(c.rest, ",")
    THEN ChildrenLoop(Tail(c.rest), Append(children, c.val), unexp \/ c.unexp)
    ELSE Ok(Append(children, c.val), c.rest, unexp \/ c.unexp)

\* children_push taking the end of the list for the end of the body
children_push_drop_rest(c, children, unexp) ==
    IF ~c.ok THEN c
    ELSE IF PeekPunct(c.rest, ",")
    THEN ChildrenLoop(Tail(c.rest), Append(children, c.val), unexp \/ c.unexp)
    ELSE Ok(Append(children, c.val), <<>>, unexp \/ c.unexp)

children_push(c, children, unexp) ==
    IF ~c.ok THEN c
    ELSE IF PeekPunct(c.rest, ",")
    THEN ChildrenLoop(Tail(c.rest), Append(children, c.val), unexp \/ c.unexp)
    ELSE Ok(Append(children, c.val), c.rest, unexp \/ c.unexp)

ChildrenLoop(ts, children, unexp) ==
    IF Len(ts) = 0 THEN Ok(children, ts, unexp)
    ELSE children_push(parse_child(ts), children, unexp)

parse_children(ts) == ChildrenLoop(ts, <<>>, FALSE)

\* braced!(content in input); attributes; children: the shared body of
\* parse_optional_children and parse_required_children
braced_end(a, c, rest) ==
    IF ~c.ok THEN c
    ELSE Ok([attributes |-> a.val, children |-> c.val], rest,
            a.unexp \/ c.unexp \/ Len(c.rest) > 0)

braced_children(a, rest) ==
    IF ~a.ok THEN a ELSE braced_end(a, parse_children(a.rest), rest)

BracedBody(ts) == braced_children(parse_optional_attributes(ts[1].g), Tail(ts))

parse_optional_children(ts) ==
    IF ~PeekGroup(ts, "brace")
    THEN Ok([attributes |-> <<>>, children |-> <<>>], ts, FALSE)
    ELSE BracedBody(ts)

parse_required_children(ts, name) ==
    IF ~PeekGroup(ts, "brace") THEN Fail("element requires braces")
    ELSE BracedBody(ts)

expression_element(expr, b) ==
    IF ~b.ok THEN b
    ELSE Ok(ExprElement(expr, b.val.attributes, b.val.children), b.rest, b.unexp)

\* expression_body never asking for the braces
expression_body_braces_optional(e, require_braces) ==
    IF ~e.ok THEN e
    ELSE expression_element(e.val, parse_optional_children(e.rest))

expression_body(e, require_braces) ==
    IF ~e.ok THEN e
    ELSE IF require_braces /\ ~PeekGroup(e.rest, "brace")
    THEN Fail("expression element requires braces")
    ELSE expression_element(e.val, parse_optional_children(e.rest))

parse_expression_element(ts, require_braces) ==
    expression_body(ParseExpr(ts), require_braces)

native_element(name, b) ==
    IF ~b.ok THEN b
    ELSE Ok(NativeElement(name, b.val.attributes, b.val.children), b.rest, b.unexp)

parse_native_element(ts, name) == native_element(name, parse_required_children(ts, name))

component_element(name, b) ==
    IF ~b.ok THEN b
    ELSE Ok(ComponentElement(name, b.val.attributes, b.val.children), b.rest, b.unexp)

parse_component_element(ts, name) ==
    component_element(name, parse_required_children(ts, name))

\* deferred_child without the check that the body is used up
deferred_child_any_arity(c, name, rest) ==
    IF ~c.ok THEN c ELSE Ok(DeferredElement(name, c.val), rest, c.unexp)

\* parse_deferred_element after parse_child: the optional trailing comma and
\* the check that the body is used up
deferred_child(c, name, rest) ==
    IF ~c.ok THEN c
    ELSE IF Len(IF PeekPunct(c.rest, ",") THEN Tail(c.rest) ELSE c.rest) > 0
    THEN Fail("deferred must have exactly one child")
    ELSE Ok(DeferredElement(name, c.val), rest, c.unexp)

parse_deferred_element(ts, name) ==
    IF ~PeekGroup(ts, "brace") THEN Fail("deferred must have exactly one child")
    ELSE deferred_child(parse_child(ts[1].g), name, Tail(ts))

\* element_by_name taking every name but deferred for a native element
element_by_name_all_native(ts, name) ==
    IF name = "deferred" THEN parse_deferred_element(Tail(ts), ts[1].s)
    ELSE parse_native_element(Tail(ts), ts[1].s)

\* element_by_name without the test for the native element names
element_by_name_no_native(ts, name) ==
    IF name = "deferred" THEN parse_deferred_element(Tail(ts), ts[1].s)
    ELSE parse_component_element(Tail(ts), ts[1].s)

\* the kind test of parse_element on the identifier the fork has read
element_by_name(ts, name) ==
    IF name = "deferred" THEN parse_deferred_element(Tail(ts), ts[1].s)
    ELSE IF name \in NATIVE_ELEMENTS THEN parse_native_element(Tail(ts), ts[1].s)
    ELSE parse_component_element(Tail(ts), ts[1].s)

\* fork = input.fork(); ident = fork.call(Ident::parse_any); fork.peek(Brace):
\* the fork is a copy, the input keeps its first token
fork_ident_brace(ts) == PeekGroup(Tail(ts), "brace")

parse_element(ts) ==
    IF PeekIdent(ts)
    THEN IF fork_ident_brace(ts)
         THEN element_by_name(ts, ts[1].s)
         ELSE parse_expression_element(ts, TRUE)
    ELSE IF PeekGroup(ts, "paren") THEN parse_expression_element(ts, FALSE)
    ELSE Fail("Expected element")

child_spread(e) == IF ~e.ok THEN e ELSE Ok(ChildSpread(e.val), e.rest, FALSE)

child_method_chain(m) == Ok(ChildMethodChain(m.val), m.rest, FALSE)

child_element(el) == IF ~el.ok THEN el ELSE Ok(ChildElement(el.val), el.rest, el.unexp)

child_expression_element(expr, b) ==
    IF ~b.ok THEN b
    ELSE Ok(ChildElement(ExprElement(expr, b.val.attributes, b.val.children)),
            b.rest, b.unexp)

child_expression(e) ==
    IF ~e.ok THEN e
    ELSE IF PeekGroup(e.rest, "brace")
    THEN child_expression_element(e.val, parse_optional_children(e.rest))
    ELSE Ok(ChildExpression(e.val), e.rest, FALSE)

\* is_element_head taking every identifier followed by a brace for an element
is_element_head_any_ident(ts) == PeekIdent(ts) /\ PeekGroup(Tail(ts), "brace")

\* is_element_head without the lookahead for the brace
is_element_head_no_lookahead(ts) == PeekIdent(ts)

\* the test of parse_child for a nested native, deferred or component element
is_element_head(ts) ==
    /\ PeekIdent(ts)
    /\ PeekGroup(Tail(ts), "brace")
    /\ (ts[1].s = "deferred" \/ ts[1].s \in NATIVE_ELEMENTS \/ is_uppercase(ts[1].s))

parse_child(ts) ==
    IF PeekPunct(ts, "..") THEN child_spread(ParseExpr(Tail(ts)))
    ELSE IF PeekPunct(ts, ".") THEN child_method_chain(parse_method_chain(Tail(ts)))
    ELSE IF is_element_head(ts) THEN child_element(parse_element(ts))
    ELSE child_expression(ParseExpr(ts))

\* syn refuses a parse that returned Ok but left tokens unconsumed, at the
\* top level or inside any delimited region it entered
parse_end(r) ==
    IF ~r.ok THEN r
    ELSE IF r.unexp \/ Len(r.rest) > 0 THEN Fail("unexpected token")
    ELSE r

\* impl Parse for Markup, run by parse_macro_input!
Markup_parse(ts) == parse_end(parse_element(ts))

(***************************************************************************)
(* The code generator.  A generation result is [panic, toks]: panic when   *)
(* an `unreachable!` arm was reached, and otherwise the tokens emitted.    *)
(***************************************************************************)
Gen(toks) == [panic |-> FALSE, toks |-> toks]
Panic == [panic |-> TRUE, toks |-> <<>>]

\* Option<Ident>::None for a close name
NoName == ""

\* The parser's elements carry no close name (parser.rs builds them from
\* name, attributes and children alone), so the generator's close_name is None.
close_name(el) == NoName

\* The parser's KeyValue attribute holds one `value` expression, which is
\* the one entry of the `values` the generator iterates over.
values(attr) == <<attr.value>>

Call(name, args) == <<P("."), Id(name), Grp("paren", args)>>

native_element_type(name) ==
    CASE name = "div" -> Gen(<<Id("Div")>>)
      [] name = "svg" -> Gen(<<Id("Svg")>>)
      [] name = "anchored" -> Gen(<<Id("Anchored")>>)
      [] OTHER -> Panic

\* the two constructor closures handed to generate_base_with_spans:
\* |name| quote! { #name() } and |name| quote! { #name::new() }
NativeCtor(name) == <<Id(name), Grp("paren", <<>>)>>
ComponentCtor(name) == <<Id(name), P("::"), Id("new"), Grp("paren", <<>>)>>
constructor(which, name) ==
    IF which = "native" THEN NativeCtor(name) ELSE ComponentCtor(name)

generate_base_with_spans(open_name, close, which) ==
    IF close # NoName
    THEN <<Grp("brace",
               <<P("#"), Grp("bracket", <<Id("allow"), Grp("paren", <<Id("path_statements")>>)>>),
                 Id(open_name), P(";")>> \o constructor(which, close))>>
    ELSE constructor(which, open_name)

wrap_with_parent_check(out, type_path) ==
    <<Grp("brace",
          <<Id("fn"), Id("__assert_parent_element"), P("<"), Id("T"), P(":"),
            Id("gpui"), P("::"), Id("ParentElement"), P(">"),
            Grp("paren", <<>>), Grp("brace", <<>>),
            Id("__assert_parent_element"), P("::"), P("<")>>
          \o type_path
          \o <<P(">"), Grp("paren", <<>>), P(";")>>
          \o out)>>

RECURSIVE JoinComma(_)
JoinComma(es) ==
    IF Len(es) = 0 THEN <<>>
    ELSE IF Len(es) = 1 THEN es[1]
    ELSE es[1] \o <<P(",")>> \o JoinComma(Tail(es))

\* one arm of the match in append_attributes
append_attribute(out, attr) ==
    IF attr.kind = "Flag"
    THEN out \o Call(attr.key, <<>>)
    ELSE out \o Call(attr.key, JoinComma(values(attr)))

RECURSIVE append_attributes(_, _)
append_attributes(out, attributes) ==
    IF Len(attributes) = 0 THEN out
    ELSE append_attributes(append_attribute(out, Head(attributes)), Tail(attributes))

RECURSIVE Element_to_tokens(_), append_children(_, _)

\* what a child interpolates into the quote: #element, #expr or #tokens
child_tokens(child) ==
    IF child.kind = "Element" THEN Element_to_tokens(child.element) ELSE Gen(child.expr)

\* append_child adding a Spread child with `.child` like a single child
append_child_spread_as_child(out, child, toks) ==
    IF child.kind = "MethodChain" THEN out \o <<P(".")>> \o toks
    ELSE out \o Call("child", toks)

\* one arm of the match in append_children
append_child(out, child, toks) ==
    CASE child.kind = "Element" -> out \o Call("child", toks)
      [] child.kind = "Expression" -> out \o Call("child", toks)
      [] child.kind = "Spread" -> out \o Call("children", toks)
      [] child.kind = "MethodChain" -> out \o <<P(".")>> \o toks

\* the rest of the `for child in children` loop after one child
children_next(out, child, t, rest) ==
    IF t.panic THEN Panic
    ELSE append_children(append_child(out, child, t.toks), rest)

append_children(out, children) ==
    IF Len(children) = 0 THEN Gen(out)
    ELSE children_next(out, Head(children), child_tokens(Head(children)), Tail(children))

\* NativeElement::to_tokens once the base and the attributes are emitted
native_children(out, ty, children) ==
    IF ty.panic THEN Panic
    ELSE append_children(
             wrap_with_parent_check(out, <<Id("gpui"), P("::")>> \o ty.toks),
             children)

native_output(out, el) ==
    IF Len(el.children) > 0
    THEN native_children(out, native_element_type(el.name), el.children)
    ELSE Gen(out)

NativeElement_to_tokens(el) ==
    native_output(
        append_attributes(generate_base_with_spans(el.name, close_name(el), "native"),
                          el.attributes),
        el)

\* the match on self.child in DeferredElement::to_tokens
deferred_child_tokens(child) ==
    CASE child.kind = "Element" -> Element_to_tokens(child.element)
      [] child.kind = "Expression" -> Gen(child.expr)
      [] OTHER -> Panic

deferred_output(name, t) ==
    IF t.panic THEN Panic
    ELSE Gen(<<Id(name),
               Grp("paren", <<Grp("paren", t.toks),
                              P("."), Id("into_any_element"), Grp("paren", <<>>)>>)>>)

DeferredElement_to_tokens(el) ==
    deferred_output(el.name, deferred_child_tokens(el.children[1]))

component_output(out, el) ==
    IF Len(el.children) > 0
    THEN append_children(wrap_with_parent_check(out, <<Id(el.name)>>), el.children)
    ELSE Gen(out)

ComponentElement_to_tokens(el) ==
    component_output(generate_base_with_spans(el.name, close_name(el), "component"), el)

\* ExprElement_to_tokens calling the tag expression like a native constructor
ExprElement_to_tokens_called(el) ==
    append_children(append_attributes(el.expr \o <<Grp("paren", <<>>)>>, el.attributes),
                    el.children)

ExprElement_to_tokens(el) ==
    append_children(append_attributes(el.expr, el.attributes), el.children)

Element_to_tokens(el) ==
    CASE el.kind = "Native" -> NativeElement_to_tokens(el)
      [] el.kind = "Deferred" -> DeferredElement_to_tokens(el)
      [] el.kind = "Component" -> ComponentElement_to_tokens(el)
      [] el.kind = "Expression" -> ExprElement_to_tokens(el)

(***************************************************************************)
(* The inputs: macro bodies put together from tag heads, attribute blocks  *)
(* and lists of children.                                                  *)
(***************************************************************************)
MaxChildren == 2
MaxChainLen == 4

Brace(ts) == Grp("brace", ts)
Bracket(ts) == Grp("bracket", ts)
Paren(ts) == Grp("paren", ts)

ButtonNew == <<Id("Button"), P("::"), Id("new"), Paren(<<>>)>>
ButtonClick == <<Id("Button"), P("::"), Id("new"), Paren(<<Lit("Click")>>)>>

\* tags that take a list of children
ContainerHeads ==
    { <<Id("div")>>, <<Id("Header")>>, ButtonNew, <<Id("deferred")>> }

\* every kind of tag
Heads ==
    ContainerHeads \cup
    { <<Id("svg")>>, <<Id("anchored")>>, <<Id("foo")>>, ButtonClick,
      <<Id("Container"), P("::"), Id("new"), Paren(<<Id("title")>>)>>,
      <<Paren(<<Id("a"), P("+"), Id("b")>>)>>,
      <<Lit("text")>>,
      <<Id("div"), P("@"), Bracket(<<Id("flex")>>)>>,
      <<Id("div"), P("@"),
        Bracket(<<Id("w"), P(":"), Id("px"), Paren(<<Id("width")>>), P(","),
                  Id("h"), P(":"), Id("px"), Paren(<<Id("height")>>)>>)>> }

AttrBlocks ==
    { <<>>,
      <<Bracket(<<Id("flex")>>)>>,
      <<Bracket(<<Id("flex"), P(","), Id("style"), P(":"), Id("Primary")>>)>>,
      <<Bracket(<<Id("when"), P(":"), Paren(<<Id("c"), P(","), Id("f")>>), P(","),
                  Id("w"), P(":"), Id("px"), Paren(<<Id("x")>>), P(",")>>)>> }

MapGeneric ==
    <<P("."), Id("map"), P("::"), P("<"), Id("Div"), P(","), Id("_"), P(">"),
      Paren(<<Id("d")>>)>>

\* the children lists are made of
ListItems ==
    { <<Lit("Header")>>,
      <<P(".."), Id("items")>>,
      <<P("."), Id("flex"), Paren(<<>>)>>,
      MapGeneric,
      <<Id("div"), Brace(<<Bracket(<<Id("bold")>>), Lit("Nested")>>)>>,
      <<Id("Header"), Brace(<<Bracket(<<Id("flex"), P(","), Id("style"), P(":"), Id("Primary")>>)>>)>>,
      <<Id("foo"), Brace(<<>>)>>,
      ButtonNew \o <<Brace(<<Bracket(<<Id("flex")>>)>>)>> }

\* children that appear alone in a body
SingleItems ==
    { <<Paren(<<Id("some_expr")>>)>>,
      <<Id("deferred"), Brace(<<Lit("a")>>)>>,
      <<Id("deferred"), Brace(<<P(".."), Id("items")>>)>>,
      <<Id("deferred"), Brace(<<P("."), Id("flex"), Paren(<<>>)>>)>>,
      <<Id("deferred"), Brace(<<>>)>>,
      <<Id("ui"), P("!"), Brace(<<Id("div"), Brace(<<>>)>>)>>,
      <<Id("foo"), Brace(<<Bracket(<<Id("flex")>>)>>)>>,
      <<Id("svg"), Brace(<<Lit("a"), Lit("b")>>)>>,
      <<P(".")>>,
      <<P("."), Id("a"), P(">"), P(","), Id("b")>>,
      <<Id("div"), Brace(<<Bracket(<<Id("flex"), Id("bold")>>)>>)>> }

\* children that fail to parse, each with an error of its own
DeferredTwo == <<Id("deferred"), Brace(<<Lit("a"), P(","), Lit("b")>>)>>
BadAttribute == <<Id("svg"), Brace(<<Bracket(<<Lit("x")>>)>>)>>
BadValue == <<Id("div"), Brace(<<Bracket(<<Id("w"), P(":")>>)>>)>>
FailingItems == { DeferredTwo, BadAttribute, BadValue }

\* a child whose body leaves tokens behind (no comma between two items)
MissingComma == <<Id("svg"), Brace(<<Lit("a"), Lit("b")>>)>>

\* bodies of two children, the first of them in error
ErrorPairs ==
    { x \o <<P(",")>> \o y :
        x \in FailingItems \cup { MissingComma },
        y \in FailingItems \cup { <<Lit("z")>> } }

\* a nested invocation of the macro, and a foreign expression
NestedUi == <<Id("ui"), P("!"), Brace(<<Id("div"), Brace(<<>>)>>)>>
Opaque == <<Paren(<<Id("some_expr")>>)>>

\* longer lists
FixedLists ==
    { <<Lit("Header"), P(","), P(".."), Id("items"), P(","), Lit("Footer")>>,
      <<Lit("Header"), P(",")>> \o NestedUi \o <<P(","), Lit("Footer")>>,
      <<Lit("Header"), P(",")>> \o Opaque \o <<P(","), Lit("Footer")>>,
      <<Lit("static"), P(","), P("."), Id("flex"), Paren(<<>>), P("."), Id("gap_2"), Paren(<<>>),
        P(",")>> \o MapGeneric \o <<P(","), Lit("z")>> }

\* the items joined by the separator (a comma, or nothing when sep is FALSE),
\* with a trailing comma when trailing is TRUE
RECURSIVE Join(_, _, _)
Join(items, sep, trailing) ==
    IF Len(items) = 0 THEN <<>>
    ELSE IF Len(items) = 1
    THEN items[1] \o (IF trailing THEN <<P(",")>> ELSE <<>>)
    ELSE items[1] \o (IF sep THEN <<P(",")>> ELSE <<>>) \o Join(Tail(items), sep, trailing)

ItemSeqs == UNION { [1..n -> ListItems] : n \in 0..MaxChildren }

ChildLists ==
    { Join(items, TRUE, FALSE) : items \in ItemSeqs }
    \cup { Join(items, TRUE, TRUE) : items \in ItemSeqs }
    \cup { Join(items, FALSE, FALSE) : items \in ItemSeqs }
    \cup SingleItems
    \cup FixedLists
    \cup ErrorPairs

\* the close tag </name>
CloseTag(name) == <<P("<"), P("/"), Id(name), P(">")>>

\* elements written with a close tag after the body
CloseTagInputs ==
    { <<Id(open), Brace(c)>> \o CloseTag(close) :
        open \in {"div", "Header"}, close \in {"div", "svg", "Header"},
        c \in { <<>>, <<Lit("a")>> } }

Inputs ==
    { h \o <<Brace(a \o c)>> : h \in ContainerHeads, a \in AttrBlocks, c \in ChildLists }
    \cup CloseTagInputs
    \cup { h \o <<Brace(a)>> : h \in Heads, a \in AttrBlocks }
    \cup Heads
    \cup { <<>> }

\* the token runs parse_method_chain is given (what follows the leading `.`)
ChainAlphabet == { Id("m"), P(","), P("<"), P(">"), Paren(<<Id("x")>>) }
ChainInputs == UNION { [1..n -> ChainAlphabet] : n \in 0..MaxChainLen }

(***************************************************************************)
(* The macro: `ui` parses its input as Markup and generates the tokens of  *)
(* the Markup.                                                             *)
(***************************************************************************)
Init ==
    /\ input \in Inputs
    /\ phase = "start"
    /\ ast = NoElement
    /\ err = ""
    /\ output = <<>>
    /\ mc_input = <<>>
    /\ mc_rest = <<>>
    /\ mc_depth = 0
    /\ mc_tokens = <<>>
    /\ mc_pc = "idle"

\* the expansion stops with a compile error when the parse fails
set_markup(r) ==
    IF r.ok
    THEN /\ phase' = "parsed"
         /\ ast' = r.val
         /\ err' = ""
    ELSE /\ phase' = "error"
         /\ ast' = NoElement
         /\ err' = r.err

\* parse_macro_input!(input as Markup): the parse of each input, as a table
parse_macro_input == [ts \in Inputs |-> Markup_parse(ts)]

\* let markup = parse_macro_input!(input as Markup);
ParseInput ==
    /\ phase = "start"
    /\ set_markup(parse_macro_input[input])
    /\ UNCHANGED <<input, output>>
    /\ UNCHANGED mcvars

set_output(g) ==
    IF g.panic
    THEN /\ phase' = "panic"
         /\ output' = <<>>
    ELSE /\ phase' = "done"
         /\ output' = g.toks

\* let output = quote! { #markup };
Generate ==
    /\ phase = "parsed"
    /\ set_output(Element_to_tokens(ast))
    /\ UNCHANGED <<input, ast, err>>
    /\ UNCHANGED mcvars

Next == ParseInput \/ Generate

Spec == Init /\ [][Next]_vars

(***************************************************************************)
(* parse_method_chain run one loop iteration at a time                     *)
(***************************************************************************)
InitChain ==
    /\ mc_input \in ChainInputs
    /\ mc_rest = mc_input
    /\ mc_depth = 0
    /\ mc_tokens = <<>>
    /\ mc_pc = "loop"
    /\ input = <<>>
    /\ phase = "idle"
    /\ ast = NoElement
    /\ err = ""
    /\ output = <<>>

\* chain_step going round the loop again where the loop has ended
chain_step_no_exit(st) ==
    /\ mc_rest' = st.rest
    /\ mc_depth' = st.angle_depth
    /\ mc_tokens' = st.tokens
    /\ mc_pc' = "loop"

\* the loop variables after one iteration
chain_step(st) ==
    /\ mc_rest' = st.rest
    /\ mc_depth' = st.angle_depth
    /\ mc_tokens' = st.tokens
    /\ mc_pc' = IF st.done THEN "done" ELSE "loop"

ChainLoop ==
    /\ mc_pc = "loop"
    /\ chain_step(ChainIter([rest |-> mc_rest, angle_depth |-> mc_depth,
                             tokens |-> mc_tokens, done |-> FALSE]))
    /\ UNCHANGED mc_input
    /\ UNCHANGED pvars

NextChain == ChainLoop

SpecChain == InitChain /\ [][NextChain]_vars

(***************************************************************************)
(* The pass and the loop of parse_method_chain together, run to their end: *)
(* the macro is straight-line code that nothing preempts, so a step that   *)
(* can be taken is taken.                                                  *)
(***************************************************************************)
InitRun ==
    /\ phase = "boot"
    /\ input = <<>>
    /\ ast = NoElement
    /\ err = ""
    /\ output = <<>>
    /\ mc_input = <<>>
    /\ mc_rest = <<>>
    /\ mc_depth = 0
    /\ mc_tokens = <<>>
    /\ mc_pc = "idle"

\* the compiler expands an invocation of the macro on some input
Invoke ==
    /\ phase = "boot"
    /\ input' \in Inputs
    /\ phase' = "start"
    /\ UNCHANGED <<ast, err, output, mc_input, mc_rest, mc_depth, mc_tokens, mc_pc>>

\* parse_child calls parse_method_chain on some rest of a body
InvokeChain ==
    /\ phase = "boot"
    /\ \E ts \in ChainInputs : mc_input' = ts /\ mc_rest' = ts
    /\ mc_pc' = "loop"
    /\ phase' = "idle"
    /\ UNCHANGED <<input, ast, err, output, mc_depth, mc_tokens>>

NextRun == Invoke \/ InvokeChain \/ ParseInput \/ Generate \/ ChainLoop

SpecRun ==
    /\ InitRun
    /\ [][NextRun]_vars
    /\ WF_vars(ParseInput)
    /\ WF_vars(Generate)
    /\ WF_vars(ChainLoop)

(***************************************************************************)
(* Reading a generated chain                                               *)
(***************************************************************************)
Parsed == phase \in {"parsed", "done", "panic"}

RECURSIVE SubElements(_)
SubElements(el) ==
    {el} \cup UNION { SubElements(el.children[i].element) :
                        i \in { j \in DOMAIN el.children : el.children[j].kind = "Element" } }

RECURSIVE Concat(_)
Concat(ss) == IF Len(ss) = 0 THEN <<>> ELSE Head(ss) \o Concat(Tail(ss))

\* the index of the first `;` of ts (0 when there is none)
FirstSemi(ts) ==
    IF \E i \in DOMAIN ts : IsPunct(ts[i], ";")
    THEN CHOOSE i \in DOMAIN ts : IsPunct(ts[i], ";") /\ \A j \in 1..(i - 1) : ~IsPunct(ts[j], ";")
    ELSE 0

HasParentCheck(out) ==
    /\ Len(out) >= 1
    /\ IsGroup(out[1], "brace")
    /\ Len(out[1].g) >= 2
    /\ out[1].g[1] = Id("fn")
    /\ out[1].g[2] = Id("__assert_parent_element")

\* the chain with the block of the parent check opened: what the block
\* wraps, followed by what is chained onto the block
RECURSIVE Flat(_)
Flat(out) ==
    IF HasParentCheck(out)
    THEN Flat(Drop(out[1].g, FirstSemi(out[1].g))) \o Tail(out)
    ELSE out

\* the chain with the arguments of every call left out
Skeleton(ts) ==
    [i \in DOMAIN ts |-> IF IsGroup(ts[i], "paren") THEN Grp("paren", <<>>) ELSE ts[i]]

ExpectedBase(el) ==
    CASE el.kind = "Native" -> <<Id(el.name), Grp("paren", <<>>)>>
      [] el.kind = "Component" -> <<Id(el.name), P("::"), Id("new"), Grp("paren", <<>>)>>
      [] OTHER -> el.expr

AttrCallNames(attributes) ==
    Concat([i \in DOMAIN attributes |-> <<P("."), Id(attributes[i].key), Grp("paren", <<>>)>>])

ChildCallName(child) ==
    CASE child.kind = "Spread" -> <<P("."), Id("children"), Grp("paren", <<>>)>>
      [] child.kind = "MethodChain" -> <<P(".")>> \o Skeleton(child.expr)
      [] OTHER -> <<P("."), Id("child"), Grp("paren", <<>>)>>

ChildCallNames(children) ==
    Concat([i \in DOMAIN children |-> ChildCallName(children[i])])

ExpectedSkeleton(el) ==
    Skeleton(ExpectedBase(el)) \o AttrCallNames(el.attributes) \o ChildCallNames(el.children)

Chained(el) == el.kind \in {"Native", "Component", "Expression"}

\* C1: for every element the parser accepts, the generated chain is the base,
\* then one method call per attribute in source order, then one contribution
\* per child in source order.
C1_ChainMirrorsSource ==
    phase = "done" =>
        \A el \in SubElements(ast) :
            Chained(el) =>
                LET g == Element_to_tokens(el) IN
                ~g.panic /\ Skeleton(Flat(g.toks)) = ExpectedSkeleton(el)

(***************************************************************************)
(* The lists of the inputs, by the tokens they are written as: the items,  *)
(* whether commas separate them, and whether a comma follows the last.     *)
(***************************************************************************)
ListForms == { <<TRUE, FALSE>>, <<TRUE, TRUE>>, <<FALSE, FALSE>> }

WrittenLists ==
    { [items |-> items, sep |-> f[1], trailing |-> f[2], body |-> Join(items, f[1], f[2])] :
        items \in ItemSeqs, f \in ListForms }

ListsOf == [b \in { w.body : w \in WrittenLists } |-> { w \in WrittenLists : w.body = b }]

\* the lists written as the tokens b
ListsWritten(b) == IF b \in DOMAIN ListsOf THEN ListsOf[b] ELSE {}

(***************************************************************************)
(* Deferred                                                                *)
(***************************************************************************)
DeferredOf(body) == <<Id("deferred"), Grp("brace", body)>>

ExpectedDeferred(child_toks) ==
    <<Id("deferred"),
      Grp("paren", <<Grp("paren", child_toks), P("."), Id("into_any_element"),
                     Grp("paren", <<>>)>>)>>

\* C2: `deferred {}` and `deferred { a, b }` fail to parse; `deferred { a }`,
\* also with a trailing comma, parses to a Deferred element with exactly one
\* child, generated as deferred((child).into_any_element()).
C2_DeferredArity ==
    (phase # "start" /\ Len(input) = 2 /\ input[1] = Id("deferred")
         /\ IsGroup(input[2], "brace")) =>
        \A w \in ListsWritten(input[2].g) :
            w.sep =>
                IF Len(w.items) = 1
                THEN /\ Parsed
                     /\ ast.kind = "Deferred"
                     /\ ast.name = "deferred"
                     /\ Len(ast.children) = 1
                     /\ ast.children[1].kind = "Expression" =>
                            ast.children[1].expr = w.items[1]
                     /\ ast.children[1].kind = "Element" =>
                            ast.children[1].element.kind
                                \in {"Native", "Component", "Expression"}
                     /\ (phase = "done" /\ ast.children[1].kind = "Expression") =>
                            output = ExpectedDeferred(w.items[1])
                     /\ (phase = "done" /\ ast.children[1].kind = "Element") =>
                            output = ExpectedDeferred(
                                         Element_to_tokens(ast.children[1].element).toks)
                     /\ ast.children[1].kind \in {"Expression", "Element"} =>
                            phase # "panic"
                ELSE phase = "error"

C2_Witness ==
    /\ phase = "done"
    /\ input = DeferredOf(<<Lit("Header"), P(",")>>)
    /\ Len(ast.children) = 1
    /\ output = ExpectedDeferred(<<Lit("Header")>>)

\* C3: the parser never returns a Deferred element whose child is a Spread
\* or a MethodChain, so the generator's unreachable arm is never reached.
C3_DeferredChildKind ==
    /\ phase # "panic"
    /\ Parsed =>
           \A el \in SubElements(ast) :
               el.kind = "Deferred" => el.children[1].kind \in {"Element", "Expression"}

(***************************************************************************)
(* Method chains                                                           *)
(***************************************************************************)
CountIn(ts, c, a, b) == Cardinality({k \in a..b : IsPunct(ts[k], c)})

\* position i of ts lies after a `<` that no `>` before i has matched
InsideAngles(ts, i) ==
    \E j \in 1..(i - 1) :
        /\ IsPunct(ts[j], "<")
        /\ \A k \in (j + 1)..(i - 1) : CountIn(ts, ">", j + 1, k) <= CountIn(ts, "<", j + 1, k)

TopCommas(ts) == { n \in DOMAIN ts : IsPunct(ts[n], ",") /\ ~InsideAngles(ts, n) }

ExpectedChainLen(ts) ==
    IF TopCommas(ts) = {} THEN Len(ts)
    ELSE (CHOOSE n \in TopCommas(ts) : \A m \in TopCommas(ts) : n <= m) - 1

\* C4: a method chain is the token run up to, and not including, the first
\* comma at angle-bracket depth 0; a comma inside `<` `>` does not end it, the
\* depth is never negative, the tokens are kept unchanged and in order, and
\* the terminating comma is left in the input.
C4_MethodChainRun ==
    /\ mc_depth >= 0
    /\ mc_tokens \o mc_rest = mc_input
    /\ Len(mc_tokens) <= ExpectedChainLen(mc_input)
    /\ mc_pc = "done" =>
           /\ mc_tokens = Take(mc_input, ExpectedChainLen(mc_input))
           /\ Len(mc_rest) > 0 => IsPunct(mc_rest[1], ",")

C4_Witness ==
    /\ mc_pc = "done"
    /\ \E n \in DOMAIN mc_tokens : IsPunct(mc_tokens[n], ",")
    /\ \E n \in DOMAIN mc_tokens : IsPunct(mc_tokens[n], ">")
    /\ Len(mc_rest) > 0

(***************************************************************************)
(* Children                                                                *)
(***************************************************************************)
ChildContribution(child) ==
    CASE child.kind = "Element" ->
           <<P("."), Id("child"), Grp("paren", Element_to_tokens(child.element).toks)>>
      [] child.kind = "Expression" -> <<P("."), Id("child"), Grp("paren", child.expr)>>
      [] child.kind = "Spread" -> <<P("."), Id("children"), Grp("paren", child.expr)>>
      [] child.kind = "MethodChain" -> <<P(".")>> \o child.expr

Childless(el) == [el EXCEPT !.children = <<>>]

HeaderItemsFooter ==
    <<Lit("Header"), P(","), P(".."), Id("items"), P(","), Lit("Footer")>>

\* C5: each child adds exactly one item to the chain, by its kind: .child(x)
\* for an Element or Expression, .children(x) for a Spread, the raw tokens
\* after a `.` for a MethodChain, in source order and never merged.
C5_OneContributionPerChild ==
    /\ phase = "done" =>
           \A el \in SubElements(ast) :
               Chained(el) =>
                   Flat(Element_to_tokens(el).toks)
                       = Flat(Element_to_tokens(Childless(el)).toks)
                           \o Concat([i \in DOMAIN el.children |->
                                          ChildContribution(el.children[i])])
    /\ (phase = "done" /\ input = <<Id("div"), Grp("brace", HeaderItemsFooter)>>) =>
           Flat(output) = <<Id("div"), Grp("paren", <<>>),
                            P("."), Id("child"), Grp("paren", <<Lit("Header")>>),
                            P("."), Id("children"), Grp("paren", <<Id("items")>>),
                            P("."), Id("child"), Grp("paren", <<Lit("Footer")>>)>>

C5_Witness ==
    /\ phase = "done"
    /\ input = <<Id("div"), Grp("brace", HeaderItemsFooter)>>
    /\ Len(ast.children) = 3
    /\ ast.children[2].kind = "Spread"

(***************************************************************************)
(* Element and child kinds                                                 *)
(***************************************************************************)
KindByName(name) ==
    IF name = "deferred" THEN "Deferred"
    ELSE IF name \in {"div", "svg", "anchored"} THEN "Native"
    ELSE "Component"

KnownName(name) ==
    name = "deferred" \/ name \in {"div", "svg", "anchored"} \/ name \in UpperInitial

IdentBrace(ts) == PeekIdent(ts) /\ PeekGroup(Tail(ts), "brace")

\* C6: at every element position an identifier followed by a brace body
\* that is not deferred, not a native keyword and not uppercase-initial is
\* rejected with an "unknown element" error and never compiled as a Component.
C6_UnknownElementRejected ==
    /\ (phase # "start" /\ IdentBrace(input) /\ ~KnownName(input[1].s)) =>
           (phase = "error" /\ err = "unknown element")
    /\ Parsed =>
           \A el \in SubElements(ast) : el.kind = "Component" => el.name \in UpperInitial

ContainerNew == <<Id("Container"), P("::"), Id("new"), Grp("paren", <<Id("title")>>)>>

\* C7: at the root an identifier followed by a brace body is Deferred for
\* the name deferred, Native for div, svg and anchored, and a Component
\* otherwise; an identifier not followed by a brace starts a host expression
\* and gives an Expression element; the lookahead consumes nothing.
C7_RootClassification ==
    /\ (Parsed /\ PeekIdent(input)) =>
           IF PeekGroup(Tail(input), "brace")
           THEN ast.kind = KindByName(input[1].s) /\ ast.name = input[1].s
           ELSE /\ ast.kind = "Expression"
                /\ Len(ast.expr) >= 1
                /\ ast.expr = Take(input, Len(ast.expr))
    /\ (phase # "start" /\ input = ContainerNew \o <<Grp("brace", <<>>)>>) =>
           (Parsed /\ ast.kind = "Expression" /\ ast.expr = ContainerNew)
    /\ (phase # "start" /\ input = <<Id("div"), Grp("brace", <<>>)>>) =>
           (Parsed /\ ast.kind = "Native")

C7_Witness ==
    /\ phase = "parsed"
    /\ input = ContainerNew \o <<Grp("brace", <<>>)>>
    /\ ast.kind = "Expression"

\* the tokens of the children of the body the input ends with
BodyChildren(ts) ==
    LET content == ts[Len(ts)].g IN
    IF PeekGroup(content, "bracket") THEN Tail(content) ELSE content

DivOf(body) == <<Id("div"), Grp("brace", body)>>

ButtonFlex ==
    <<Id("Button"), P("::"), Id("new"), Grp("paren", <<>>),
      Grp("brace", <<Grp("bracket", <<Id("flex")>>)>>)>>

\* C8: in child position `..` gives a Spread, `.` a MethodChain, an
\* identifier followed by a brace named deferred, native or uppercase-initial
\* a nested Element of that kind, any other expression followed by a brace
\* body a nested Expression element, and anything else an Expression child.
C8_ChildClassification ==
    /\ (Parsed /\ Chained(ast) /\ Len(input) >= 1 /\ IsGroup(input[Len(input)], "brace")
            /\ Len(BodyChildren(input)) > 0) =>
           LET c == BodyChildren(input)
               ch == ast.children[1]
               e == ExprEnd(c, 0)
           IN /\ Len(ast.children) >= 1
              /\ CASE PeekPunct(c, "..") ->
                        ch.kind = "Spread" /\ ch.expr = SubSeq(c, 2, 1 + Len(ch.expr))
                   [] PeekPunct(c, ".") -> ch.kind = "MethodChain"
                   [] IdentBrace(c) /\ KnownName(c[1].s) ->
                        /\ ch.kind = "Element"
                        /\ ch.element.kind = KindByName(c[1].s)
                        /\ ch.element.name = c[1].s
                   [] OTHER ->
                        IF Len(c) > e /\ IsGroup(c[e + 1], "brace")
                        THEN /\ ch.kind = "Element"
                             /\ ch.element.kind = "Expression"
                             /\ ch.element.expr = Take(c, e)
                        ELSE ch.kind = "Expression" /\ ch.expr = Take(c, e)
    /\ (phase # "start" /\ input = DivOf(<<Grp("paren", <<Id("some_expr")>>)>>)) =>
           (Parsed /\ ast.children[1].kind = "Expression")
    /\ (phase # "start" /\ input = DivOf(ButtonFlex)) =>
           /\ Parsed
           /\ ast.children[1].kind = "Element"
           /\ ast.children[1].element.kind = "Expression"
           /\ ast.children[1].element.attributes = <<AttrFlag("flex")>>
           /\ ast.children[1].element.children = <<>>

C8_Witness ==
    /\ phase = "parsed"
    /\ input = DivOf(ButtonFlex)
    /\ ast.children[1].kind = "Element"
    /\ ast.children[1].element.kind = "Expression"

(***************************************************************************)
(* Attributes                                                              *)
(***************************************************************************)
\* C9: a Component is generated as Name::new() followed by one method call
\* per parsed attribute in source order, before any child call.
C9_ComponentAttributes ==
    phase = "done" =>
        \A el \in SubElements(ast) :
            el.kind = "Component" =>
                Skeleton(Flat(Element_to_tokens(Childless(el)).toks))
                    = <<Id(el.name), P("::"), Id("new"), Grp("paren", <<>>)>>
                          \o AttrCallNames(el.attributes)

IsTupleLit(v) ==
    /\ Len(v) = 1
    /\ IsGroup(v[1], "paren")
    /\ \E i \in DOMAIN v[1].g : IsPunct(v[1].g[i], ",")

\* the elements of a tuple literal, as written between its parentheses
TupleArgs(v) ==
    LET g == v[1].g IN
    IF IsPunct(g[Len(g)], ",") THEN Take(g, Len(g) - 1) ELSE g

ExpectedAttrCall(a) ==
    IF a.kind = "Flag" THEN <<P("."), Id(a.key), Grp("paren", <<>>)>>
    ELSE IF IsTupleLit(a.value) THEN <<P("."), Id(a.key), Grp("paren", TupleArgs(a.value))>>
    ELSE <<P("."), Id(a.key), Grp("paren", a.value)>>

\* C10: a flag compiles to a zero-argument call, `key: expr` to key(expr),
\* and `key: (e1, e2)` to the two-argument call key(e1, e2).
C10_AttributeArity ==
    phase = "done" =>
        \A el \in SubElements(ast) :
            el.kind \in {"Native", "Expression"} =>
                Flat(Element_to_tokens(Childless(el)).toks)
                    = ExpectedBase(el)
                          \o Concat([i \in DOMAIN el.attributes |->
                                         ExpectedAttrCall(el.attributes[i])])

(***************************************************************************)
(* Expression elements                                                     *)
(***************************************************************************)
\* C11: an Expression element is generated as its tag expression itself,
\* with no constructor call added, followed by its attribute calls and then
\* its child contributions in source order; with no attribute and no child
\* the output is exactly the tag expression.
C11_ExpressionBase ==
    /\ phase = "done" =>
           \A el \in SubElements(ast) :
               el.kind = "Expression" =>
                   LET toks == Element_to_tokens(el).toks IN
                   /\ Len(toks) >= Len(el.expr)
                   /\ Take(toks, Len(el.expr)) = el.expr
                   /\ Skeleton(Drop(toks, Len(el.expr)))
                          = AttrCallNames(el.attributes) \o ChildCallNames(el.children)
                   /\ (el.attributes = <<>> /\ el.children = <<>>) => toks = el.expr
    /\ (phase = "done" /\ ast.kind = "Expression") =>
           ast.expr = Take(input, Len(ast.expr))
    /\ (phase = "done" /\ input = ButtonClick \o <<Grp("brace", <<>>)>>) =>
           output = ButtonClick

C11_Witness ==
    /\ phase = "done"
    /\ input = ButtonClick \o <<Grp("brace", <<>>)>>
    /\ ast.kind = "Expression"
    /\ output = ButtonClick

NoTopLevelBrace(ts) == \A i \in DOMAIN ts : ~IsGroup(ts[i], "brace")

APlusB == <<Grp("paren", <<Id("a"), P("+"), Id("b")>>)>>

\* C12: at the root an expression element that starts with an identifier
\* must have a brace body, otherwise the parse aborts with the "expression
\* element requires braces" error; an element that starts with a
\* parenthesized group may omit the body and is then an Expression element
\* with no attribute and no child, generated as just the expression.
C12_BodyRequirement ==
    /\ (phase # "start" /\ PeekIdent(input) /\ NoTopLevelBrace(input)) =>
           (phase = "error" /\ err = "expression element requires braces")
    /\ (phase # "start" /\ PeekGroup(input, "paren") /\ Len(input) = 1) =>
           /\ Parsed
           /\ ast = ExprElement(input, <<>>, <<>>)
           /\ phase = "done" => output = input
    /\ (phase # "start" /\ input = APlusB) => Parsed

C12_Witness ==
    /\ phase = "error"
    /\ input = ButtonNew
    /\ err = "expression element requires braces"

(***************************************************************************)
(* The parent check                                                        *)
(***************************************************************************)
ExpectedType(el) ==
    CASE el.kind = "Component" -> <<Id(el.name)>>
      [] el.name = "div" -> <<Id("gpui"), P("::"), Id("Div")>>
      [] el.name = "svg" -> <<Id("gpui"), P("::"), Id("Svg")>>
      [] el.name = "anchored" -> <<Id("gpui"), P("::"), Id("Anchored")>>

ParentAssertion(type) ==
    <<Id("fn"), Id("__assert_parent_element"), P("<"), Id("T"), P(":"),
      Id("gpui"), P("::"), Id("ParentElement"), P(">"),
      Grp("paren", <<>>), Grp("brace", <<>>),
      Id("__assert_parent_element"), P("::"), P("<")>>
    \o type \o <<P(">"), Grp("paren", <<>>), P(";")>>

\* the block of the parent check around `wrapped`, for some wrapped chain
\* that is the base of el followed by one call per attribute of el
WrapsBaseAndAttributes(block, el) ==
    LET n == Len(ParentAssertion(ExpectedType(el))) IN
    /\ IsGroup(block, "brace")
    /\ Len(block.g) >= n
    /\ Take(block.g, n) = ParentAssertion(ExpectedType(el))
    /\ Skeleton(Drop(block.g, n))
           = Skeleton(ExpectedBase(el)) \o AttrCallNames(el.attributes)

NamedElement(el) == el.kind \in {"Native", "Component"}

\* C13: a Native or Component element is generated with the
\* __assert_parent_element check if and only if it has at least one child;
\* the check wraps the base with all the attribute calls, comes before every
\* child contribution and names the type of the tag.
C13_ParentAssertion ==
    phase = "done" =>
        \A el \in SubElements(ast) :
            NamedElement(el) =>
                LET toks == Element_to_tokens(el).toks IN
                /\ HasParentCheck(toks) <=> Len(el.children) > 0
                /\ Len(el.children) = 0 => NoTopLevelBrace(toks)
                /\ Len(el.children) > 0 =>
                       /\ WrapsBaseAndAttributes(toks[1], el)
                       /\ Tail(toks) = Concat([i \in DOMAIN el.children |->
                                                   ChildContribution(el.children[i])])

\* C13 for the elements that the loss of a Component's attributes leaves alone
C13_ExceptComponentAttributes ==
    phase = "done" =>
        \A el \in SubElements(ast) :
            (NamedElement(el) /\ (el.kind = "Native" \/ el.attributes = <<>>)) =>
                LET toks == Element_to_tokens(el).toks IN
                /\ HasParentCheck(toks) <=> Len(el.children) > 0
                /\ Len(el.children) = 0 => NoTopLevelBrace(toks)
                /\ Len(el.children) > 0 =>
                       /\ WrapsBaseAndAttributes(toks[1], el)
                       /\ Tail(toks) = Concat([i \in DOMAIN el.children |->
                                                   ChildContribution(el.children[i])])

(***************************************************************************)
(* Errors                                                                  *)
(***************************************************************************)
\* the error each failing child stops the parse with
ErrorOf(x) ==
    CASE x = DeferredTwo -> "deferred must have exactly one child"
      [] x = BadAttribute -> "expected identifier"
      [] x = BadValue -> "expected an expression"

ErrorOutcome == phase = "error" /\ err # "" /\ ast = NoElement /\ output = <<>>

\* C14: the first parse step that fails ends the pass in an error outcome
\* with that one error: nothing after it is parsed, no other error replaces
\* it, nothing is generated, and the pass takes no further step.
C14_FirstErrorWins ==
    /\ [](phase = "error" => ErrorOutcome)
    /\ [](phase # "error" => err = "")
    /\ [](\A x \in FailingItems : \A y \in FailingItems \cup { <<Lit("z")>> } :
              (phase # "start" /\ input = DivOf(x \o <<P(",")>> \o y)) =>
                  (ErrorOutcome /\ err = ErrorOf(x)))
    /\ [](\A y \in FailingItems :
              (phase # "start" /\ input = DivOf(MissingComma \o <<P(",")>> \o y)) =>
                  (ErrorOutcome /\ err = ErrorOf(y)))
    /\ [][phase # "error"]_vars

C14_Witness ==
    /\ phase = "error"
    /\ input = DivOf(DeferredTwo \o <<P(",")>> \o BadAttribute)
    /\ err = "deferred must have exactly one child"
    /\ output = <<>>

(***************************************************************************)
(* The documented surface                                                  *)
(***************************************************************************)
DivAtFlex == <<Id("div"), P("@"), Grp("bracket", <<Id("flex")>>), Grp("brace", <<>>)>>

DivAtWidthHeight ==
    <<Id("div"), P("@"),
      Grp("bracket", <<Id("w"), P(":"), Id("px"), Grp("paren", <<Id("width")>>), P(","),
                       Id("h"), P(":"), Id("px"), Grp("paren", <<Id("height")>>)>>),
      Grp("brace", <<>>)>>

\* C15: `div @[flex] {}` is accepted and expands to div().flex(), and
\* `div @[w: px(width), h: px(height)] {}` is accepted and expands to the
\* two calls .w(px(width)).h(px(height)) on div(), in that order.
C15_AttributeBlockAfterTag ==
    /\ (phase # "start" /\ input = DivAtFlex) =>
           /\ Parsed
           /\ phase = "done" =>
                  output = <<Id("div"), Grp("paren", <<>>),
                             P("."), Id("flex"), Grp("paren", <<>>)>>
    /\ (phase # "start" /\ input = DivAtWidthHeight) =>
           /\ Parsed
           /\ phase = "done" =>
                  output = <<Id("div"), Grp("paren", <<>>),
                             P("."), Id("w"),
                             Grp("paren", <<Id("px"), Grp("paren", <<Id("width")>>)>>),
                             P("."), Id("h"),
                             Grp("paren", <<Id("px"), Grp("paren", <<Id("height")>>)>>)>>

(***************************************************************************)
(* Nested invocations                                                      *)
(***************************************************************************)
Between(x) == <<Lit("Header"), P(",")>> \o x \o <<P(","), Lit("Footer")>>

EndsWith(ts, tl) == Len(ts) >= Len(tl) /\ Drop(ts, Len(ts) - Len(tl)) = tl

\* the tree and the chain the outer pass makes of the body with x in the
\* place of the nested invocation
WithChild(head, attrs, x) == Markup_parse(head \o <<Grp("brace", attrs \o x)>>)

\* C16: a nested `ui! { ... }` in child position is one plain Expression
\* child of the outer pass, and the outer chain has the same structure, one
\* .child(x) at that position among the same siblings, as with any other
\* opaque expression in its place.
C16_NestedInvocation ==
    \A h \in ContainerHeads \ { <<Id("deferred")>> } : \A a \in AttrBlocks :
        \A x \in { NestedUi, Between(NestedUi) } :
            (input = h \o <<Grp("brace", a \o x)>> /\ phase # "start") =>
                LET n == IF x = NestedUi THEN 1 ELSE 2
                    o == IF x = NestedUi THEN Opaque ELSE Between(Opaque)
                    other == WithChild(h, a, o)
                IN /\ Parsed
                   /\ Len(ast.children) = (IF x = NestedUi THEN 1 ELSE 3)
                   /\ ast.children[n] = ChildExpression(NestedUi)
                   /\ other.ok
                   /\ ast = [other.val EXCEPT !.children[n] = ChildExpression(NestedUi)]
                   /\ phase = "done" =>
                          /\ Skeleton(Flat(output))
                                 = Skeleton(Flat(Element_to_tokens(other.val).toks))
                          /\ EndsWith(Flat(output),
                                      Concat([i \in DOMAIN ast.children |->
                                                  ChildContribution(ast.children[i])]))

C16_Witness ==
    /\ phase = "done"
    /\ input = DivOf(Between(NestedUi))
    /\ ast.children[2] = ChildExpression(NestedUi)
    /\ Flat(output) = <<Id("div"), Grp("paren", <<>>),
                        P("."), Id("child"), Grp("paren", <<Lit("Header")>>),
                        P("."), Id("child"), Grp("paren", NestedUi),
                        P("."), Id("child"), Grp("paren", <<Lit("Footer")>>)>>

(***************************************************************************)
(* Close tags                                                              *)
(***************************************************************************)
\* C17: an element written with a close tag parses when the close
\* identifier equals the open identifier and fails with a mismatched closing
\* tag error when the two differ; no AST with a close name different from
\* its open name reaches the code generator.
C17_TagMatching ==
    /\ \A open \in {"div", "Header"} : \A close \in {"div", "svg", "Header"} :
           \A c \in { <<>>, <<Lit("a")>> } :
               (phase # "start" /\ input = <<Id(open), Grp("brace", c)>> \o CloseTag(close)) =>
                   IF open = close
                   THEN Parsed /\ ast.name = open
                   ELSE phase = "error" /\ err = "mismatched closing tag"
    /\ Parsed =>
           \A el \in SubElements(ast) :
               NamedElement(el) => close_name(el) \in {NoName, el.name}

(***************************************************************************)
(* Lists                                                                   *)
(***************************************************************************)
\* the tokens an AST was written as, with a comma between the entries of a
\* list and none after the last
SourceOfAttribute(a) ==
    IF a.kind = "Flag" THEN <<Id(a.key)>> ELSE <<Id(a.key), P(":")>> \o a.value

SourceOfAttributes(attributes) ==
    IF Len(attributes) = 0 THEN <<>>
    ELSE <<Grp("bracket",
               JoinComma([i \in DOMAIN attributes |-> SourceOfAttribute(attributes[i])]))>>

RECURSIVE SourceOfChild(_)
SourceOfElement(el) ==
    (IF el.kind = "Expression" THEN el.expr ELSE <<Id(el.name)>>)
    \o <<Grp("brace",
             SourceOfAttributes(el.attributes)
             \o JoinComma([i \in DOMAIN el.children |-> SourceOfChild(el.children[i])]))>>

SourceOfChild(child) ==
    CASE child.kind = "Element" -> SourceOfElement(child.element)
      [] child.kind = "Expression" -> child.expr
      [] child.kind = "Spread" -> <<P("..")>> \o child.expr
      [] child.kind = "MethodChain" -> <<P(".")>> \o child.expr

\* the attributes each attribute block of the inputs lists
AttributesOf(a) ==
    CASE a = <<>> -> <<>>
      [] a = <<Grp("bracket", <<Id("flex")>>)>> -> <<AttrFlag("flex")>>
      [] a = <<Grp("bracket", <<Id("flex"), P(","), Id("style"), P(":"), Id("Primary")>>)>> ->
           <<AttrFlag("flex"), AttrKeyValue("style", <<Id("Primary")>>)>>
      [] OTHER ->
           <<AttrKeyValue("when", <<Grp("paren", <<Id("c"), P(","), Id("f")>>)>>),
             AttrKeyValue("w", <<Id("px"), Grp("paren", <<Id("x")>>)>>)>>

HelloComma == <<Id("div"), Grp("brace", <<Lit("Header"), P(",")>>)>>

C19_DeferredDiagnostic ==
    (phase # "start" /\ Len(input) = 2 /\ input[1] = Id("deferred")
         /\ IsGroup(input[2], "brace")) =>
        \A w \in ListsWritten(input[2].g) :
            (w.sep /\ Len(w.items) # 1) =>
                (phase = "error" /\ err = "deferred must have exactly one child")

\* C19 for the bodies of two or more children alone
C19_MultiChildDiagnostic ==
    (phase # "start" /\ Len(input) = 2 /\ input[1] = Id("deferred")
         /\ IsGroup(input[2], "brace")) =>
        \A w \in ListsWritten(input[2].g) :
            (w.sep /\ Len(w.items) >= 2) =>
                (phase = "error" /\ err = "deferred must have exactly one child")

(***************************************************************************)
(* Well-formed chains                                                      *)
(***************************************************************************)
\* a `.` with no method after it: at the end, or before a `.` or a `,`
DanglingDot(ts) ==
    \E i \in DOMAIN ts :
        /\ IsPunct(ts[i], ".")
        /\ \/ i = Len(ts)
           \/ IsPunct(ts[i + 1], ".")
           \/ IsPunct(ts[i + 1], ",")

LoneDot == <<Id("div"), Grp("brace", <<P(".")>>)>>

\* C20: a method-chain child always has at least one token after its
\* leading `.`: a lone `.` is rejected by the parser, and the generator never
\* emits a `.` with nothing after it.
C20_NoDanglingDot ==
    /\ (phase # "start" /\ input = LoneDot) => phase = "error"
    /\ Parsed =>
           \A el \in SubElements(ast) :
               \A i \in DOMAIN el.children :
                   el.children[i].kind = "MethodChain" => Len(el.children[i].expr) >= 1
    /\ phase = "done" => ~DanglingDot(Flat(output))

(***************************************************************************)
(* Native names                                                            *)
(***************************************************************************)
\* C22: every Native element of a parsed tree, at any depth, is named div,
\* svg or anchored, so the generator's lookup of the toolkit type never
\* reaches its unreachable arm.
C22_NativeNames ==
    Parsed =>
        \A el \in SubElements(ast) :
            el.kind = "Native" =>
                /\ el.name \in {"div", "svg", "anchored"}
                /\ ~native_element_type(el.name).panic

C22_Witness ==
    /\ phase = "done"
    /\ ast.kind = "Native"
    /\ Len(ast.children) >= 1
    /\ \E i \in DOMAIN ast.children :
           /\ ast.children[i].kind = "Element"
           /\ ast.children[i].element.kind = "Native"
           /\ Len(ast.children[i].element.children) >= 1

(***************************************************************************)
(* Termination                                                             *)
(***************************************************************************)
\* the token regions of ts: ts and, recursively, the content of every group
RECURSIVE Regions(_)
Regions(ts) ==
    {ts} \cup UNION { Regions(ts[i].g) : i \in { j \in DOMAIN ts : ts[j].k = "group" } }

\* the places of the input a list loop can stand at: every non-empty suffix
\* of every region
LoopPositions ==
    UNION { { Drop(r, k) : k \in 0..(Len(r) - 1) } : r \in Regions(input) }

\* the pass has ended: an expression was generated, or the compilation was
\* aborted with the error of the parser or of the panicking generator
Ended == phase \in {"done", "error", "panic"}

ConsumesOrFails(r, ts) == r.ok => Len(r.rest) < Len(ts)

\* C21: for every input the pass ends, with one generated expression or with
\* one error; each iteration of the child-list loop, of the attribute-list
\* loop and of the method-chain loop consumes at least one token or stops.
C21_Termination ==
    /\ (phase = "start") ~> Ended
    /\ (mc_pc = "loop") ~> (mc_pc = "done")
    /\ [][(mc_pc = "loop" /\ mc_pc' = "loop") => Len(mc_rest') < Len(mc_rest)]_vars
    /\ [](phase \in {"parsed", "error"} =>
              \A ts \in LoopPositions :
                  /\ ConsumesOrFails(parse_child(ts), ts)
                  /\ ConsumesOrFails(parse_attribute(ts), ts))
    /\ [](phase = "done" => (err = "" /\ Len(output) >= 1))
    /\ [](phase = "error" => (err # "" /\ output = <<>>))

C21_Witness ==
    /\ phase = "done"
    /\ Len(ast.children) = 2
    /\ ast.children[1].kind = "MethodChain"
    /\ ast.children[2].kind = "Element"
    /\ Len(ast.attributes) = 2

====
